---- MODULE Spec2Model ----
(***************************************************************************)
(* Library analytics ETL system: the pipeline orchestrator                 *)
(* (pipelines/etl_framework.py), the pipeline scheduler                    *)
(* (archive/etl_system/schedulers/pipeline_scheduler.py) and the data      *)
(* quality monitor (archive/etl_system/monitoring/quality_monitor.py).     *)
(*                                                                         *)
(* Eight specifications share the variables of this module:                *)
(*   SpecPipeline  - one ETLPipeline object: add_component and execute()   *)
(*   SpecScheduler - one PipelineScheduler with its loop thread and a      *)
(*                   caller thread                                         *)
(*   SpecAlerts    - one DataQualityMonitor: analyses and the alert store  *)
(*   SpecHealth    - one DataQualityMonitor: analyses and health scores    *)
(*   SpecValidator - one DataQualityValidator: its rules and execute()     *)
(*   SpecScore     - one DataQualityMonitor whose clock is UTC: analyses   *)
(*                   and health scores of two pipelines                    *)
(*   SpecRegistry  - SpecScheduler with either config file path and with   *)
(*                   restarts of the scheduler from its config file        *)
(*   SpecLoop      - one PipelineScheduler started on a config file of two *)
(*                   pipelines, with calls of stop_scheduler               *)
(***************************************************************************)
EXTENDS Integers, Sequences, FiniteSets, TLC

(***************************************************************************)
(* Bounds of the model.                                                    *)
(***************************************************************************)
MaxComponents == 3
MaxExecs == 2
MaxObjects == 1
MaxJobs == 2
MaxCalls == 2
MaxAnalyses == 2
MaxHealthRows == 1
MaxTime == 3
MaxRules == 2
MaxValidations == 2
MaxRestarts == 1

(***************************************************************************)
(* ETLPipeline state.                                                      *)
(***************************************************************************)
VARIABLES
    config,            \* ETLPipeline.config, a dict as a set of <<key, value>>
    components,        \* ETLPipeline.components, the kinds of the components
    comp_metrics,      \* component.metrics of each component
    pipeline_metrics,  \* ETLPipeline.pipeline_metrics
    exec_pc,           \* position inside execute()
    comp_idx,          \* the for-loop's position in self.components
    data,              \* the local variable data of execute()
    ran,               \* the components this call of execute() has invoked
                       \* and how each invocation ended
    exec_calls,        \* number of execute() calls made on this object
    results_file,      \* the monitoring/pipeline_execution_<id>.json files
    returned           \* what the last execute() call handed to its caller

pipeVars == <<config, components, comp_metrics, pipeline_metrics, exec_pc,
              comp_idx, data, ran, exec_calls, results_file, returned>>

ComponentKinds == {"extractor", "transformer", "loader"}

Configs == { {}, {<<"stop_on_error", TRUE>>}, {<<"stop_on_error", FALSE>>} }

\* dict.get(key, default)
DictGet(d, key, default) ==
    IF \E kv \in d : kv[1] = key
    THEN (CHOOSE kv \in d : kv[1] = key)[2]
    ELSE default

StopOnErrorIgnored(cfg) == FALSE

\* self.config.get('stop_on_error', True)
StopOnError(cfg) == DictGet(cfg, "stop_on_error", TRUE)

\* BaseETLComponent.__init__: the metrics of a new component
NewComponentMetrics ==
    [status |-> "pending", records_processed |-> 0, errors |-> 0]

\* ETLPipeline.__init__: the pipeline_metrics of a new pipeline; the
\* execution_id is the md5 of the name and the time of construction
NewPipelineMetrics ==
    [execution_id |-> <<"pipeline", 0>>,
     status |-> "pending", start_time |-> 0, end_time |-> 0,
     total_components |-> 0, successful_components |-> 0,
     failed_components |-> 0, component_metrics |-> <<>>]

InitPipeline ==
    /\ config \in Configs
    /\ components = <<>>
    /\ comp_metrics = <<>>
    /\ pipeline_metrics = NewPipelineMetrics
    /\ exec_pc = "idle"
    /\ comp_idx = 0
    /\ data = "None"
    /\ ran = <<>>
    /\ exec_calls = 0
    /\ results_file = {}
    /\ returned = "nothing"

\* ETLPipeline.add_component
add_component(kind) ==
    /\ exec_pc = "idle"
    /\ Len(components) < MaxComponents
    /\ components' = Append(components, kind)
    /\ comp_metrics' = Append(comp_metrics, NewComponentMetrics)
    /\ pipeline_metrics' =
         [pipeline_metrics EXCEPT !.total_components = @ + 1]
    /\ UNCHANGED <<config, exec_pc, comp_idx, data, ran, exec_calls,
                   results_file, returned>>

\* ETLPipeline.execute, lines 318-323: the run begins
execute_start ==
    /\ exec_pc = "idle"
    /\ exec_calls < MaxExecs
    /\ exec_calls' = exec_calls + 1
    /\ pipeline_metrics' =
         [pipeline_metrics EXCEPT !.start_time = exec_calls + 1,
                                  !.status = "running"]
    /\ data' = "None"
    /\ comp_idx' = 1
    /\ ran' = <<>>
    /\ returned' = "nothing"
    /\ exec_pc' = "loop"
    /\ UNCHANGED <<config, components, comp_metrics, results_file>>

\* Whether component.execute(input) can return: a loader always evaluates
\* len(data), which raises for None and for a bool; an extractor ignores its
\* input; a transformer hands its input to transform().
CanSucceed(kind, input) ==
    CASE kind = "extractor" -> TRUE
      [] kind = "transformer" -> input = "dataset"
      [] kind = "loader" -> input = "dataset"

\* What a returning component.execute() hands back: extract() and
\* transform() return a DataFrame, load() returns a bool.
ComponentOutput(kind) ==
    IF kind = "loader" THEN "bool" ELSE "dataset"

ErrorSwallowed(m, ok) ==
    [m EXCEPT !.status = "completed", !.records_processed = 1]

\* start_execution / end_execution / add_error applied to one component
ComponentMetricsAfter(m, ok) ==
    IF ok
    THEN [m EXCEPT !.status = "completed", !.records_processed = 1]
    ELSE [m EXCEPT !.status = "failed", !.errors = @ + 1]

\* The class of the exception a failing component.execute() raises: lines
\* 103, 124 and 145 each raise ETLPipelineError
RaisedError(kind) ==
    CASE kind = "extractor" -> "ETLPipelineError"
      [] kind = "transformer" -> "ETLPipelineError"
      [] kind = "loader" -> "ETLPipelineError"

DataReset(d, kind, ok) == IF ok THEN ComponentOutput(kind) ELSE "None"

\* ETLPipeline.execute, line 330: data = component.execute(data) assigns
\* only when the call returns; when it raises data keeps its value
DataAfter(d, kind, ok) == IF ok THEN ComponentOutput(kind) ELSE d

\* ETLPipeline.execute, lines 326-342: one iteration of the for loop.
\* raises is the behaviour of the underlying extract/transform/load.
execute_component(raises) ==
    /\ exec_pc = "loop"
    /\ comp_idx <= Len(components)
    /\ LET kind == components[comp_idx]
           ok == CanSucceed(kind, data) /\ ~raises
           counted ==
             IF ok
             THEN [pipeline_metrics EXCEPT !.successful_components = @ + 1]
             ELSE [pipeline_metrics EXCEPT !.failed_components = @ + 1]
           stop == ~ok /\ StopOnError(config)
           marked == IF stop THEN [counted EXCEPT !.status = "failed"]
                     ELSE counted
       IN /\ comp_metrics' =
               [comp_metrics EXCEPT
                  ![comp_idx] = ComponentMetricsAfter(@, ok)]
          /\ data' = DataAfter(data, kind, ok)
          /\ pipeline_metrics' =
               [marked EXCEPT !.component_metrics = Append(@, comp_idx)]
          /\ ran' = Append(ran, [index |-> comp_idx, ok |-> ok,
                                 error |-> IF ok THEN "none"
                                           ELSE RaisedError(kind)])
          /\ IF stop
             THEN exec_pc' = "except" /\ comp_idx' = comp_idx
             ELSE exec_pc' = "loop" /\ comp_idx' = comp_idx + 1
    /\ UNCHANGED <<config, components, exec_calls, results_file, returned>>

\* ETLPipeline.execute, lines 344-345: the loop ran to its end
execute_completed ==
    /\ exec_pc = "loop"
    /\ comp_idx > Len(components)
    /\ pipeline_metrics' = [pipeline_metrics EXCEPT !.status = "completed"]
    /\ exec_pc' = "finally"
    /\ UNCHANGED <<config, components, comp_metrics, comp_idx, data, ran,
                   exec_calls, results_file, returned>>

\* ETLPipeline.execute, lines 347-349: the outer handler catches the
\* ETLPipelineError raised at line 339
execute_except ==
    /\ exec_pc = "except"
    /\ pipeline_metrics' = [pipeline_metrics EXCEPT !.status = "failed"]
    /\ exec_pc' = "finally"
    /\ UNCHANGED <<config, components, comp_metrics, comp_idx, data, ran,
                   exec_calls, results_file, returned>>

SaveNothing(file, metrics) == file

\* ETLPipeline._save_execution_results: json.dump of self.pipeline_metrics
\* into the file named after self.execution_id, opened with mode 'w'
SaveExecutionResults(file, metrics) ==
    {r \in file : r.execution_id # metrics.execution_id} \cup {metrics}

\* ETLPipeline.execute, lines 351-360, with _save_execution_results
execute_finally ==
    /\ exec_pc = "finally"
    /\ pipeline_metrics' = [pipeline_metrics EXCEPT !.end_time = exec_calls]
    /\ results_file' =
         SaveExecutionResults(results_file,
             [pipeline_metrics EXCEPT !.end_time = exec_calls])
    /\ returned' = "pipeline_metrics"
    /\ exec_pc' = "idle"
    /\ UNCHANGED <<config, components, comp_metrics, comp_idx, data, ran,
                   exec_calls>>


(***************************************************************************)
(* PipelineScheduler state.                                                *)
(***************************************************************************)
VARIABLES
    objects,              \* the ScheduledPipeline objects created so far
    scheduled_pipelines,  \* self.scheduled_pipelines: name -> object (0: none)
    running_pipelines,    \* self.running_pipelines: name -> registering thread
    jobs,                 \* schedule's job list: number of jobs tagged name
    scheduler_thread,     \* self.scheduler_thread
    config_file,          \* the entries of the file at self.config_file
    metrics_db,           \* rows written by _update_pipeline_metrics
    scheduler_events,     \* rows of table scheduler_events
    pc,                   \* position of each thread inside execute_pipeline
    call,                 \* arguments and locals of each thread's call
    last_return,          \* what the last execute_pipeline call to end returned
    calls,                \* number of execute_pipeline calls made
    config_file_path,     \* self.config_file
    stop_result,          \* how the last call scheduler.stop_scheduler() ended
    restarts,             \* number of times the scheduler was constructed anew
    now                   \* the time, in UTC

schedVars == <<objects, scheduled_pipelines, running_pipelines, jobs,
               scheduler_thread, config_file, metrics_db, scheduler_events,
               pc, call, last_return, calls>>

Names == {"X", "Y"}

\* The scheduling loop's thread, which runs the due jobs, and a thread of the
\* presentation layer that calls execute_pipeline itself.
Threads == {"loop", "caller"}

\* pipeline_config values: component classes by role
KnownConfig ==
    [extractors |-> <<"CSVExtractor">>, transformers |-> <<"DataCleaner">>,
     loaders |-> <<"CSVLoader">>]
UnknownClassConfig ==
    [extractors |-> <<"CSVExtractor">>, transformers |-> <<"Normalizer">>,
     loaders |-> <<"CSVLoader">>]
PipelineConfigs == {KnownConfig, UnknownClassConfig}

ScheduleTypes == {"interval", "cron"}

\* PipelineScheduler._create_component: TRUE when a component is returned,
\* FALSE when line 337 raises ValueError
ComponentKnown(component_type, component_class) ==
    CASE component_type = "extractor" ->
           component_class \in
             {"CSVExtractor", "DatabaseExtractor", "LibraryDataExtractor"}
      [] component_type = "transformer" ->
           component_class \in {"DataCleaner", "LibraryDataTransformer"}
      [] component_type = "loader" ->
           component_class \in
             {"DatabaseLoader", "CSVLoader", "LibraryTableLoader"}

\* PipelineScheduler._create_pipeline: TRUE when the pipeline is built
CreatePipelineOk(cfg) ==
    /\ \A i \in 1..Len(cfg.extractors) :
           ComponentKnown("extractor", cfg.extractors[i])
    /\ \A i \in 1..Len(cfg.transformers) :
           ComponentKnown("transformer", cfg.transformers[i])
    /\ \A i \in 1..Len(cfg.loaders) :
           ComponentKnown("loader", cfg.loaders[i])

\* dataclass ScheduledPipeline, as built by add_scheduled_pipeline
NewScheduledPipeline(name, pipeline_config, schedule_config, enabled) ==
    [name |-> name, pipeline_config |-> pipeline_config,
     schedule_config |-> schedule_config, status |-> "scheduled",
     last_run |-> 0, run_count |-> 0, success_count |-> 0,
     failure_count |-> 0, enabled |-> enabled]

Registered(name) == scheduled_pipelines[name] # 0

Entry(name) == objects[scheduled_pipelines[name]]

\* PipelineScheduler._schedule_pipeline: the jobs after scheduling sp
SchedulePipeline(js, sp) ==
    IF ~sp.enabled THEN js
    ELSE IF sp.schedule_config \in {"interval", "daily", "weekly"}
         THEN [js EXCEPT ![sp.name] = @ + 1]
         ELSE js

\* PipelineScheduler._save_pipeline_configs: the file written from the
\* registry reg over the objects objs
SavedConfigs(reg, objs) ==
    {[name |-> n, pipeline |-> objs[reg[n]].pipeline_config,
      schedule |-> objs[reg[n]].schedule_config,
      enabled |-> objs[reg[n]].enabled] : n \in {m \in Names : reg[m] # 0}}

\* The values of the constructor's config_file argument: a path as the
\* sequence of its parts
DefaultConfigFile == <<"schedulers", "pipeline_schedules.json">>

ConfigFiles == {DefaultConfigFile, <<"pipeline_schedules.json">>}

\* os.path.dirname
Dirname(path) == SubSeq(path, 1, Len(path) - 1)

\* PipelineScheduler._save_pipeline_configs: os.makedirs raises
\* FileNotFoundError for the empty dirname of a bare file name, and the
\* handler at line 501 logs it and leaves the file as it was
SavePipelineConfigs(path, file, reg, objs) ==
    IF Dirname(path) = <<>> THEN file ELSE SavedConfigs(reg, objs)

\* The locals of a thread that is not inside execute_pipeline
NoCall ==
    [name |-> "none", manual |-> FALSE, obj |-> 0, results |-> "none",
     ret |-> "none"]

InitScheduler ==
    /\ objects = <<>>
    /\ scheduled_pipelines = [n \in Names |-> 0]
    /\ running_pipelines = [n \in Names |-> "none"]
    /\ jobs = [n \in Names |-> 0]
    /\ scheduler_thread = "none"
    /\ config_file = {}
    /\ metrics_db = <<>>
    /\ scheduler_events = <<>>
    /\ pc = [t \in Threads |-> "idle"]
    /\ call = [t \in Threads |-> NoCall]
    /\ last_return = "none"
    /\ calls = 0

\* PipelineScheduler.add_scheduled_pipeline
add_scheduled_pipeline(name, pipeline_config, schedule_config, enabled) ==
    /\ Len(objects) < MaxObjects
    /\ LET sp == NewScheduledPipeline(name, pipeline_config, schedule_config,
                                      enabled)
           objs == Append(objects, sp)
           reg == [scheduled_pipelines EXCEPT ![name] = Len(objs)]
       IN /\ objects' = objs
          /\ scheduled_pipelines' = reg
          /\ config_file' =
               SavePipelineConfigs(config_file_path, config_file, reg, objs)
          /\ SchedulePipeline(jobs, sp)[name] <= MaxJobs
          /\ jobs' = SchedulePipeline(jobs, sp)
    /\ UNCHANGED <<running_pipelines, scheduler_thread, metrics_db,
                   scheduler_events, pc, call, last_return, calls>>

\* PipelineScheduler.enable_pipeline (an unknown name raises ValueError and
\* changes nothing)
enable_pipeline(name) ==
    /\ Registered(name)
    /\ LET g == scheduled_pipelines[name]
           objs == [objects EXCEPT ![g].enabled = TRUE]
       IN /\ objects' = objs
          /\ SchedulePipeline(jobs, objs[g])[name] <= MaxJobs
          /\ jobs' = SchedulePipeline(jobs, objs[g])
          /\ config_file' =
               SavePipelineConfigs(config_file_path, config_file,
                                   scheduled_pipelines, objs)
    /\ UNCHANGED <<scheduled_pipelines, running_pipelines,
                   scheduler_thread, metrics_db, scheduler_events, pc, call,
                   last_return, calls>>

ClearNothing(js, tag) == js

\* schedule.clear(tag): every job tagged tag is removed
ScheduleClear(js, tag) == [js EXCEPT ![tag] = 0]

\* PipelineScheduler.disable_pipeline (an unknown name raises ValueError and
\* changes nothing)
disable_pipeline(name) ==
    /\ Registered(name)
    /\ LET g == scheduled_pipelines[name]
           objs == [objects EXCEPT ![g].enabled = FALSE]
       IN /\ objects' = objs
          /\ jobs' = ScheduleClear(jobs, name)
          /\ config_file' =
               SavePipelineConfigs(config_file_path, config_file,
                                   scheduled_pipelines, objs)
    /\ UNCHANGED <<scheduled_pipelines, running_pipelines,
                   scheduler_thread, metrics_db, scheduler_events, pc, call,
                   last_return, calls>>

RECURSIVE ScheduleAll(_, _, _)
\* start_scheduler, lines 401-402: _schedule_pipeline for every entry
ScheduleAll(js, reg, todo) ==
    IF todo = {} THEN js
    ELSE LET n == CHOOSE x \in todo : TRUE
         IN ScheduleAll(IF reg[n] = 0 THEN js
                        ELSE SchedulePipeline(js, objects[reg[n]]),
                        reg, todo \ {n})

\* PipelineScheduler.start_scheduler (a second call while the thread is
\* alive returns at line 398)
start_scheduler ==
    /\ scheduler_thread = "none"
    /\ LET js == ScheduleAll(jobs, scheduled_pipelines, Names)
       IN /\ \A n \in Names : js[n] <= MaxJobs
          /\ jobs' = js
    /\ scheduler_thread' = "alive"
    /\ scheduler_events' = Append(scheduler_events, "scheduler_started")
    /\ UNCHANGED <<objects, scheduled_pipelines, running_pipelines,
                   config_file, metrics_db, pc, call, last_return, calls>>

NeverBlocked(enabled, manual) == FALSE

ManualIgnored(enabled, manual) == ~enabled

\* execute_pipeline, line 225: a disabled pipeline is only run manually
Blocked(enabled, manual) == ~enabled /\ ~manual

\* execute_pipeline, lines 220-236, entered by thread t. The loop thread
\* (_run_scheduler, schedule.run_pending()) enters through
\* _execute_pipeline_wrapper for a job tagged name that is due, with manual
\* left at its default. datetime.now() is read as a clock that every call
\* advances.
execute_pipeline_enter(t, name, manual) ==
    /\ pc[t] = "idle"
    /\ calls < MaxCalls
    /\ calls' = calls + 1
    /\ t = "loop" => (scheduler_thread = "alive" /\ jobs[name] > 0 /\ ~manual)
    /\ IF ~Registered(name)
       THEN /\ last_return' = "ValueError"
            /\ scheduler_events' =
                 IF t = "loop"
                 THEN Append(scheduler_events, "execution_error")
                 ELSE scheduler_events
            /\ UNCHANGED <<objects, pc, call>>
       ELSE LET g == scheduled_pipelines[name]
            IN IF Blocked(objects[g].enabled, manual)
               THEN /\ last_return' = "disabled"
                    /\ UNCHANGED <<objects, pc, call, scheduler_events>>
               ELSE IF running_pipelines[name] # "none"
               THEN /\ last_return' = "already_running"
                    /\ UNCHANGED <<objects, pc, call, scheduler_events>>
               ELSE /\ objects' =
                         [objects EXCEPT ![g].status = "running",
                                         ![g].last_run = calls + 1,
                                         ![g].run_count = @ + 1]
                    /\ call' = [call EXCEPT
                                  ![t] = [name |-> name, manual |-> manual,
                                          obj |-> g, results |-> "none",
                                          ret |-> "none"]]
                    /\ pc' = [pc EXCEPT ![t] = "create"]
                    /\ UNCHANGED <<scheduler_events, last_return>>
    /\ UNCHANGED <<scheduled_pipelines, running_pipelines, jobs,
                   scheduler_thread, config_file, metrics_db>>

\* execute_pipeline, lines 240-248: the pipeline is built from the config
\* and only then entered into running_pipelines
execute_pipeline_create(t) ==
    /\ pc[t] = "create"
    /\ IF CreatePipelineOk(objects[call[t].obj].pipeline_config)
       THEN /\ running_pipelines' =
                 [running_pipelines EXCEPT ![call[t].name] = t]
            /\ pc' = [pc EXCEPT ![t] = "execute"]
       ELSE /\ pc' = [pc EXCEPT ![t] = "except"]
            /\ UNCHANGED running_pipelines
    /\ UNCHANGED <<objects, scheduled_pipelines, jobs,
                   scheduler_thread, config_file, metrics_db,
                   scheduler_events, call, last_return, calls>>

\* execute_pipeline, line 251: pipeline.execute() returns its metrics, with
\* status 'completed' or 'failed'
execute_pipeline_run(t, status) ==
    /\ pc[t] = "execute"
    /\ call' = [call EXCEPT ![t].results = status]
    /\ pc' = [pc EXCEPT ![t] = "update"]
    /\ UNCHANGED <<objects, scheduled_pipelines, running_pipelines, jobs,
                   scheduler_thread, config_file, metrics_db,
                   scheduler_events, last_return, calls>>

\* _update_pipeline_metrics: the execution row and the metric rows, computed
\* from the ScheduledPipeline sp as it is when the rows are written
MetricsRow(sp, status) ==
    [pipeline_name |-> sp.name, status |-> status,
     success_count |-> sp.success_count, total_runs |-> sp.run_count,
     total_failures |-> sp.failure_count]

\* execute_pipeline, lines 254-266
execute_pipeline_update(t) ==
    /\ pc[t] = "update"
    /\ LET g == call[t].obj
           status == call[t].results
       IN /\ metrics_db' = Append(metrics_db, MetricsRow(objects[g], status))
          /\ objects' =
               IF status = "completed"
               THEN [objects EXCEPT ![g].status = "completed",
                                    ![g].success_count = @ + 1]
               ELSE [objects EXCEPT ![g].status = "failed",
                                    ![g].failure_count = @ + 1]
          /\ call' = [call EXCEPT ![t].ret = status]
    /\ pc' = [pc EXCEPT ![t] = "finally"]
    /\ UNCHANGED <<scheduled_pipelines, running_pipelines, jobs,
                   scheduler_thread, config_file, scheduler_events,
                   last_return,
                   calls>>

CountNothing(objs, g) == [objs EXCEPT ![g].status = "failed"]

\* execute_pipeline, lines 269-270: the handler marks the entry failed and
\* counts the failure
CountFailure(objs, g) ==
    [objs EXCEPT ![g].status = "failed", ![g].failure_count = @ + 1]

\* execute_pipeline, lines 268-275: the handler of the try block
execute_pipeline_except(t) ==
    /\ pc[t] = "except"
    /\ objects' = CountFailure(objects, call[t].obj)
    /\ scheduler_events' = Append(scheduler_events, "execution_error")
    /\ call' = [call EXCEPT ![t].ret = "failed"]
    /\ pc' = [pc EXCEPT ![t] = "finally"]
    /\ UNCHANGED <<scheduled_pipelines, running_pipelines, jobs,
                   scheduler_thread, config_file, metrics_db, last_return,
                   calls>>

KeepRunning(running, name) == running

\* execute_pipeline, lines 279-280
RemoveRunning(running, name) == [running EXCEPT ![name] = "none"]

\* execute_pipeline, lines 277-280, and the return to the caller
execute_pipeline_finally(t) ==
    /\ pc[t] = "finally"
    /\ running_pipelines' = RemoveRunning(running_pipelines, call[t].name)
    /\ last_return' = call[t].ret
    /\ pc' = [pc EXCEPT ![t] = "idle"]
    /\ call' = [call EXCEPT ![t] = NoCall]
    /\ UNCHANGED <<objects, scheduled_pipelines, jobs,
                   scheduler_thread, config_file, metrics_db,
                   scheduler_events, calls>>

\* A call scheduler.stop_scheduler(): __init__ (line 73) and start_scheduler
\* (line 405) assign the instance attribute self.stop_scheduler = False,
\* which hides the method of that name (lines 413-422), so the call
\* evaluates False() and raises TypeError before any statement of the
\* method runs; the loop's test `not self.stop_scheduler` stays true
stop_scheduler ==
    /\ stop_result' = "TypeError"
    /\ UNCHANGED schedVars

\* The names of the file's entries, in a fixed order
LoadedNames(file) ==
    SelectSeq(<<"X", "Y">>, LAMBDA n : \E e \in file : e.name = n)

\* PipelineScheduler._load_pipeline_configs: the ScheduledPipeline objects
\* built from the entries of the file
LoadedObjects(file) ==
    [i \in 1..Len(LoadedNames(file)) |->
        LET e == CHOOSE x \in file : x.name = LoadedNames(file)[i]
        IN NewScheduledPipeline(e.name, e.pipeline, e.schedule, e.enabled)]

\* PipelineScheduler.__init__ in a new process on the same config_file and
\* metrics database, once no execution is in flight: a restart
restart_scheduler ==
    /\ restarts < MaxRestarts
    /\ restarts' = restarts + 1
    /\ \A t \in Threads : pc[t] = "idle"
    /\ objects' = LoadedObjects(config_file)
    /\ scheduled_pipelines' =
         [n \in Names |->
            IF \E i \in 1..Len(LoadedNames(config_file)) :
                  LoadedNames(config_file)[i] = n
            THEN CHOOSE i \in 1..Len(LoadedNames(config_file)) :
                    LoadedNames(config_file)[i] = n
            ELSE 0]
    /\ running_pipelines' = [n \in Names |-> "none"]
    /\ jobs' = [n \in Names |-> 0]
    /\ scheduler_thread' = "none"
    /\ UNCHANGED <<config_file, metrics_db, scheduler_events, pc, call,
                   last_return, calls>>

(***************************************************************************)
(* DataQualityMonitor state: the tables of monitoring/quality_metrics.db.  *)
(* Table data_profiles, which no operation modelled here reads, is left    *)
(* out.  Time is counted in units of twelve hours.  Strings built with "_" *)
(* are sequences of their "_"-separated pieces, so that two of them are    *)
(* equal exactly when the built strings are; ratios are pairs              *)
(* <<numerator, denominator>> compared and added exactly.                  *)
(***************************************************************************)
VARIABLES
    tz_offset,         \* local time minus UTC on the monitor's host
    quality_metrics,   \* rows of table quality_metrics, in insertion order
    alerts,            \* rows of table alerts
    pipeline_health,   \* rows of table pipeline_health, in insertion order
    health_score       \* what calculate_pipeline_health_score last returned

monVars == <<tz_offset, quality_metrics, alerts, pipeline_health,
             health_score>>

TzOffsets == {-1, 0, 1}

\* The '-24 hours' of the window query
Window == 2

\* pipeline_name arguments
Pipelines == {<<"lib">>, <<"lib", "completeness">>, <<"current", "pipeline">>}

RECURSIVE GCD(_, _)
GCD(a, b) == IF b = 0 THEN a ELSE GCD(b, a % b)

\* A ratio in lowest terms
Norm(r) == LET g == GCD(r[1], r[2]) IN <<r[1] \div g, r[2] \div g>>

RAdd(a, b) == Norm(<<a[1] * b[2] + b[1] * a[2], a[2] * b[2]>>)

RMul(a, b) == Norm(<<a[1] * b[1], a[2] * b[2]>>)

RDiv(a, b) == Norm(<<a[1] * b[2], a[2] * b[1]>>)

RLess(a, b) == a[1] * b[2] < b[1] * a[2]

\* count / total if total > 0 else 0
Ratio(count, total) == IF total > 0 THEN <<count, total>> ELSE <<0, 1>>

\* self.alert_thresholds of a monitor built without a configuration
alert_thresholds == {}

default_thresholds ==
    {<<"completeness", <<95, 100>>>>, <<"accuracy", <<98, 100>>>>,
     <<"consistency", <<95, 100>>>>, <<"validity", <<99, 100>>>>,
     <<"uniqueness", <<98, 100>>>>}

\* self.alert_thresholds.get(kind, self.default_thresholds[kind])
Threshold(kind) ==
    DictGet(alert_thresholds, kind,
            DictGet(default_thresholds, kind, <<0, 1>>))

\* A column of a DataFrame: its name, its dtype, the number of its non-null
\* values (count), of its values that match the pattern or parse as a date
\* (valid), of its distinct values (nunique) and of its values whose str()
\* is not empty (nonempty)
Column(name, dtype, count, valid, nunique, nonempty) ==
    [name |-> name, dtype |-> dtype, count |-> count, valid |-> valid,
     nunique |-> nunique, nonempty |-> nonempty]

\* 100 rows, 10 of them without email
MembersData ==
    [rows |-> 100, duplicate_rows |-> 0,
     columns |-> <<Column(<<"email">>, "object", 90, 90, 90, 100),
                   Column(<<"name">>, "object", 100, 0, 100, 100)>>]

\* 100 rows, 60 of them without email
SparseData ==
    [rows |-> 100, duplicate_rows |-> 0,
     columns |-> <<Column(<<"email">>, "object", 40, 40, 40, 100),
                   Column(<<"name">>, "object", 100, 0, 100, 100)>>]

\* 100 rows, 10 of them without completeness_email
SurveyData ==
    [rows |-> 100, duplicate_rows |-> 0,
     columns |-> <<Column(<<"completeness", "email">>, "object", 90, 90, 90,
                          100),
                   Column(<<"member", "id">>, "int64", 100, 0, 100, 100)>>]

Datasets == {MembersData, SparseData, SurveyData}

\* word in col.lower(), for column names made of the pieces used here
Contains(name, word) == \E i \in 1..Len(name) : name[i] = word

ContainsAny(name, words) == \E w \in words : Contains(name, w)

\* col.endswith('_id')
EndsWithId(name) == Len(name) >= 2 /\ name[Len(name)] = "id"

StatusStrict(value, threshold) ==
    IF RLess(threshold, value) THEN "pass" ELSE "fail"

\* "pass" if value >= threshold else "fail"
Status(value, threshold) ==
    IF ~RLess(value, threshold) THEN "pass" ELSE "fail"

\* dataclass QualityMetric
QualityMetric(name, value, threshold, metric_type, ts) ==
    [name |-> name, value |-> value, threshold |-> threshold,
     metric_type |-> metric_type, status |-> Status(value, threshold),
     timestamp |-> ts]

\* One metric for each column of cols, in order, with the values given
ColumnMetrics(cols, prefix, values, kind, ts) ==
    [i \in 1..Len(cols) |->
        QualityMetric(prefix \o cols[i].name, values[i], Threshold(kind),
                      kind, ts)]

\* DataQualityMonitor._analyze_completeness
analyze_completeness(d, ts) ==
    LET total_cells == d.rows * Len(d.columns)
        RECURSIVE NonNull(_)
        NonNull(k) == IF k = 0 THEN 0 ELSE d.columns[k].count + NonNull(k - 1)
    IN <<QualityMetric(<<"overall", "completeness">>,
                       Ratio(NonNull(Len(d.columns)), total_cells),
                       Threshold("completeness"), "completeness", ts)>>
       \o ColumnMetrics(d.columns, <<"completeness">>,
                        [i \in 1..Len(d.columns) |->
                            Ratio(d.columns[i].count, d.rows)],
                        "completeness", ts)

\* valid.sum() / data[column].count() for each column of cols
Validity(cols) == [i \in 1..Len(cols) |-> Ratio(cols[i].valid, cols[i].count)]

\* DataQualityMonitor._analyze_validity
analyze_validity(d, ts) ==
    LET HasEmail(c) == Contains(c.name, "email")
        HasPhone(c) == Contains(c.name, "phone")
        HasDate(c) ==
            ContainsAny(c.name, {"date", "time", "created", "updated"})
        email_columns == SelectSeq(d.columns, HasEmail)
        phone_columns == SelectSeq(d.columns, HasPhone)
        date_columns == SelectSeq(d.columns, HasDate)
    IN ColumnMetrics(email_columns, <<"email", "validity">>,
                     Validity(email_columns), "validity", ts)
       \o ColumnMetrics(phone_columns, <<"phone", "validity">>,
                        Validity(phone_columns), "validity", ts)
       \o ColumnMetrics(date_columns, <<"date", "validity">>,
                        Validity(date_columns), "validity", ts)

\* DataQualityMonitor._analyze_uniqueness
analyze_uniqueness(d, ts) ==
    LET IsUnique(c) == ContainsAny(c.name, {"id", "email", "isbn", "code"})
        unique_columns == SelectSeq(d.columns, IsUnique)
    IN ColumnMetrics(unique_columns, <<"uniqueness">>,
                     [i \in 1..Len(unique_columns) |->
                         Ratio(unique_columns[i].nunique,
                               unique_columns[i].count)],
                     "uniqueness", ts)
       \o <<QualityMetric(<<"row", "uniqueness">>,
                          Ratio(d.rows - d.duplicate_rows, d.rows),
                          Threshold("uniqueness"), "uniqueness", ts)>>

\* DataQualityMonitor._analyze_consistency
analyze_consistency(d, ts) ==
    LET IsForeignKey(c) == EndsWithId(c.name)
        foreign_key_columns == SelectSeq(d.columns, IsForeignKey)
        IsTyped(c) == c.dtype \in {"int64", "float64", "object"}
        typed_columns == SelectSeq(d.columns, IsTyped)
        OfType(c) ==
            IF c.dtype \in {"int64", "float64"}
            THEN Ratio(c.count, c.count)
            ELSE Ratio(c.nonempty, c.count)
    IN ColumnMetrics(foreign_key_columns, <<"fk", "consistency">>,
                     [i \in 1..Len(foreign_key_columns) |->
                         Ratio(foreign_key_columns[i].count, d.rows)],
                     "consistency", ts)
       \o ColumnMetrics(typed_columns, <<"type", "consistency">>,
                        [i \in 1..Len(typed_columns) |->
                            OfType(typed_columns[i])],
                        "consistency", ts)

\* The metrics list of analyze_data_quality, lines 191-205
Metrics(d, ts) ==
    analyze_completeness(d, ts) \o analyze_validity(d, ts)
        \o analyze_uniqueness(d, ts) \o analyze_consistency(d, ts)

\* DataQualityMonitor._store_quality_metrics: the row written for a metric
StoredMetric(m) ==
    [pipeline_name |-> <<"current", "pipeline">>, metric_name |-> m.name,
     metric_type |-> m.metric_type, metric_value |-> m.value,
     threshold_value |-> m.threshold, status |-> m.status,
     timestamp |-> m.timestamp]

store_quality_metrics(table, metrics) ==
    table \o [i \in 1..Len(metrics) |-> StoredMetric(metrics[i])]

AlwaysWarning(value, threshold) == "warning"

\* _generate_alerts, lines 480-486
AlertLevel(value, threshold) ==
    IF RLess(value, RMul(threshold, <<5, 10>>)) THEN "critical"
    ELSE IF RLess(value, RMul(threshold, <<8, 10>>)) THEN "error"
    ELSE "warning"

\* _generate_alerts, line 490: the string f"{pipeline_name}_{name}_{ts}"
\* that is hashed; md5 is taken to tell different strings apart
AlertId(pipeline_name, metric_name, ts) ==
    pipeline_name \o metric_name \o <<ts>>

\* dataclass Alert as the row of table alerts; a row written by INSERT OR
\* REPLACE has the column default FALSE in acknowledged
AlertRow(pipeline_name, m) ==
    [id |-> AlertId(pipeline_name, m.name, m.timestamp),
     level |-> AlertLevel(m.value, m.threshold),
     pipeline_name |-> pipeline_name, metric_name |-> m.name,
     threshold_value |-> m.threshold, actual_value |-> m.value,
     timestamp |-> m.timestamp, acknowledged |-> FALSE]

\* INSERT OR REPLACE INTO alerts, with id the PRIMARY KEY
InsertOrReplace(table, row) == {r \in table : r.id # row.id} \cup {row}

RECURSIVE generate_alerts(_, _, _)
\* DataQualityMonitor._generate_alerts over metrics, first to last
generate_alerts(table, metrics, pipeline_name) ==
    IF metrics = <<>> THEN table
    ELSE generate_alerts(
             IF Head(metrics).status = "fail"
             THEN InsertOrReplace(table, AlertRow(pipeline_name,
                                                  Head(metrics)))
             ELSE table,
             Tail(metrics), pipeline_name)

\* datetime.now(): the local time of the host
LocalNow == now + tz_offset

InitMonitor ==
    /\ quality_metrics = <<>>
    /\ alerts = {}
    /\ pipeline_health = <<>>
    /\ health_score = <<>>

\* DataQualityMonitor.analyze_data_quality
analyze_data_quality(d, pipeline_name) ==
    /\ Len(SelectSeq(quality_metrics,
                     LAMBDA r : r.metric_name = <<"row", "uniqueness">>))
          < MaxAnalyses
    /\ LET metrics == Metrics(d, LocalNow)
       IN /\ quality_metrics' = store_quality_metrics(quality_metrics, metrics)
          /\ alerts' = generate_alerts(alerts, metrics, pipeline_name)
    /\ UNCHANGED <<tz_offset, pipeline_health, health_score, now>>

\* DataQualityMonitor.acknowledge_alert
acknowledge_alert(alert_id) ==
    /\ alerts' = {IF a.id = alert_id THEN [a EXCEPT !.acknowledged = TRUE]
                  ELSE a : a \in alerts}
    /\ UNCHANGED <<tz_offset, quality_metrics, pipeline_health, health_score,
                   now>>

\* The rows selected by the query of calculate_pipeline_health_score:
\* timestamp, written from datetime.now(), is compared with
\* datetime('now', '-24 hours'), which sqlite computes in UTC
RecentMetrics(pipeline_name) ==
    SelectSeq(quality_metrics,
              LAMBDA r : /\ r.pipeline_name = pipeline_name
                         /\ r.timestamp >= now - Window)

EqualWeights ==
    {<<"completeness", <<20, 100>>>>, <<"accuracy", <<20, 100>>>>,
     <<"validity", <<20, 100>>>>, <<"consistency", <<20, 100>>>>,
     <<"uniqueness", <<20, 100>>>>}

\* calculate_pipeline_health_score, lines 623-629
weights ==
    {<<"completeness", <<25, 100>>>>, <<"accuracy", <<25, 100>>>>,
     <<"validity", <<20, 100>>>>, <<"consistency", <<15, 100>>>>,
     <<"uniqueness", <<15, 100>>>>}

RECURSIVE SumValues(_)
SumValues(rows) ==
    IF rows = <<>> THEN <<0, 1>>
    ELSE RAdd(Head(rows).metric_value, SumValues(Tail(rows)))

\* AVG(metric_value) of the rows of one metric_type
AvgValue(rows, metric_type) ==
    LET of == SelectSeq(rows, LAMBDA r : r.metric_type = metric_type)
    IN RDiv(SumValues(of), <<Len(of), 1>>)

RECURSIVE WeightedSums(_, _)
\* calculate_pipeline_health_score, lines 632-641: <<weighted_score,
\* total_weight>> over the metric types in types
WeightedSums(rows, types) ==
    IF types = {} THEN <<(<<0, 1>>), (<<0, 1>>)>>
    ELSE LET t == CHOOSE x \in types : TRUE
             rest == WeightedSums(rows, types \ {t})
             weight == DictGet(weights, t, <<1, 10>>)
         IN <<RAdd(rest[1], RMul(AvgValue(rows, t), weight)),
              RAdd(rest[2], weight)>>

\* calculate_pipeline_health_score, lines 619-641: the score over the
\* selected rows
HealthScore(rows) ==
    IF rows = <<>> THEN <<1, 1>>
    ELSE LET sums == WeightedSums(rows,
                         {rows[i].metric_type : i \in 1..Len(rows)})
         IN RDiv(sums[1], sums[2])

\* DataQualityMonitor.calculate_pipeline_health_score
calculate_pipeline_health_score(pipeline_name) ==
    /\ Len(pipeline_health) < MaxHealthRows
    /\ LET rows == RecentMetrics(pipeline_name)
       IN /\ health_score' = HealthScore(rows)
          /\ pipeline_health' =
                 IF rows = <<>> THEN pipeline_health
                 ELSE Append(pipeline_health,
                             [pipeline_name |-> pipeline_name,
                              health_score |-> HealthScore(rows),
                              timestamp |-> LocalNow])
    /\ UNCHANGED <<tz_offset, quality_metrics, alerts, now>>

\* Twelve hours pass
Tick ==
    /\ now < MaxTime
    /\ now' = now + 1
    /\ UNCHANGED monVars

(***************************************************************************)
(* DataQualityValidator state: one validator component, its rules and      *)
(* configuration, and what its execute() calls did.                        *)
(***************************************************************************)
VARIABLES
    v_rules,        \* DataQualityValidator.rules
    v_config,       \* DataQualityValidator.config
    v_metrics,      \* DataQualityValidator.metrics
    v_results,      \* what validate() last returned, the empty set if nothing
    v_returned,     \* how the last execute() call ended
    v_calls         \* number of execute() calls made on the validator

valVars == <<v_rules, v_config, v_metrics, v_results, v_returned, v_calls>>

\* The rule types given to a validator; "other" is a type _validate_rule
\* does not know
RuleTypes == {"not_null", "unique", "completeness", "other"}

\* A rule dict: its 'type', its 'severity' ("absent": no such key) and
\* whether it has the key 'name'
Rules ==
    [type : RuleTypes, severity : {"absent", "warning", "error"},
     named : BOOLEAN]

RECURSIVE SeqsUpTo(_, _)
\* The sequences over S of length at most n
SeqsUpTo(S, n) ==
    IF n = 0 THEN {<<>>}
    ELSE LET shorter == SeqsUpTo(S, n - 1)
         IN shorter \cup {Append(q, x) : q \in shorter, x \in S}

ValidatorConfigs ==
    { {}, {<<"strict_mode", FALSE>>}, {<<"strict_mode", TRUE>>} }

\* What a rule finds in a dataset: whether the rule's column exists, the
\* counts its check computes, and the cells of the frame
CleanBooks ==
    [kind |-> "DataFrame", has_column |-> TRUE, null_count |-> 0,
     duplicate_count |-> 0, out_of_range |-> 0, invalid_count |-> 0,
     non_null_cells |-> 100, total_cells |-> 100]

DirtyBooks ==
    [kind |-> "DataFrame", has_column |-> TRUE, null_count |-> 3,
     duplicate_count |-> 2, out_of_range |-> 1, invalid_count |-> 4,
     non_null_cells |-> 90, total_cells |-> 100]

OtherBooks ==
    [kind |-> "DataFrame", has_column |-> FALSE, null_count |-> 0,
     duplicate_count |-> 0, out_of_range |-> 0, invalid_count |-> 0,
     non_null_cells |-> 95, total_cells |-> 100]

\* The data a first component is given
NoData == [kind |-> "None"]

ValidatorData == {CleanBooks, DirtyBooks, OtherBooks, NoData}

\* rule.get('severity', 'warning')
ConfiguredSeverity(rule) ==
    IF rule.severity = "absent" THEN "warning" ELSE rule.severity

\* DataQualityValidator._validate_rule, lines 183-244, for a rule that has
\* its 'name' and a DataFrame d
ValidateRule(d, rule) ==
    LET needs_column == rule.type \in {"not_null", "unique", "range", "pattern"}
        raised == needs_column /\ ~d.has_column
        passed ==
            CASE rule.type = "not_null" -> d.null_count = 0
              [] rule.type = "unique" -> d.duplicate_count = 0
              [] rule.type = "range" -> d.out_of_range = 0
              [] rule.type = "pattern" -> d.invalid_count = 0
              [] rule.type = "completeness" ->
                   ~RLess(Ratio(d.non_null_cells, d.total_cells), <<95, 100>>)
              [] OTHER -> FALSE
    IN [rule_type |-> rule.type,
        passed |-> ~raised /\ passed,
        severity |-> IF raised THEN "error" ELSE ConfiguredSeverity(rule)]

BlocksByResult(rule, rule_result) ==
    ~rule_result.passed /\ rule_result.severity = "error"

\* DataQualityValidator.validate, lines 172-174: whether a rule result sets
\* passed to False
Blocks(rule, rule_result) ==
    ~rule_result.passed /\ ConfiguredSeverity(rule) = "error"

\* Whether validate(d) raises instead of returning: _profile_data needs a
\* DataFrame, and _validate_rule reads rule['name'] before its try block
ValidateRaises(d, rules) ==
    \/ d.kind # "DataFrame"
    \/ \E i \in 1..Len(rules) : ~rules[i].named

\* DataQualityValidator.validate, for a call that returns
Validate(d, rules) ==
    LET rule_results == [i \in 1..Len(rules) |-> ValidateRule(d, rules[i])]
        failed == {i \in 1..Len(rules) : ~rule_results[i].passed}
    IN [passed |-> ~\E i \in failed : Blocks(rules[i], rule_results[i]),
        total_rules |-> Len(rules),
        passed_rules |-> Len(rules) - Cardinality(failed),
        failed_rules |-> Cardinality(failed),
        rule_results |-> rule_results]

\* The failed_errors and failed_warnings of execute(), lines 264-274
FailedWith(results, severity) ==
    {i \in 1..Len(results.rule_results) :
        /\ ~results.rule_results[i].passed
        /\ results.rule_results[i].severity = severity}

\* DataQualityValidator.execute, lines 263-270: whether DataQualityError is
\* raised for the results of validate()
RaisesDataQualityError(results) ==
    ~results.passed /\ FailedWith(results, "error") # {}

\* BaseETLComponent.__init__: the metrics of a new validator
NewValidatorMetrics ==
    [status |-> "pending", records_processed |-> 0, errors |-> 0,
     warnings |-> 0]

InitValidator ==
    /\ v_metrics = NewValidatorMetrics
    /\ v_results = {}
    /\ v_returned = "nothing"
    /\ v_calls = 0

\* DataQualityValidator.execute
validator_execute(d) ==
    /\ v_calls < MaxValidations
    /\ v_calls' = v_calls + 1
    /\ IF ValidateRaises(d, v_rules)
       THEN /\ v_metrics' = [v_metrics EXCEPT !.status = "failed",
                                              !.errors = @ + 1]
            /\ v_returned' = "ETLPipelineError"
            /\ UNCHANGED v_results
       ELSE LET results == Validate(d, v_rules)
            IN /\ v_results' = {results}
               /\ IF RaisesDataQualityError(results)
                  THEN /\ v_metrics' = [v_metrics EXCEPT
                                          !.status = "failed",
                                          !.errors = @ + 1]
                       /\ v_returned' = "DataQualityError"
                  ELSE /\ v_metrics' =
                            [v_metrics EXCEPT
                               !.status = "completed",
                               !.warnings = @ + Cardinality(
                                   FailedWith(results, "warning"))]
                       /\ v_returned' = "data"
    /\ UNCHANGED <<v_rules, v_config>>

vars ==
    <<pipeVars, schedVars, now, monVars, valVars, config_file_path,
      stop_result, restarts>>

PipelineFrame ==
    UNCHANGED <<schedVars, now, monVars, valVars, config_file_path,
                stop_result, restarts>>

SchedulerFrame ==
    UNCHANGED <<pipeVars, now, monVars, valVars, config_file_path,
                stop_result, restarts>>

MonitorFrame ==
    UNCHANGED <<pipeVars, schedVars, valVars, config_file_path,
                stop_result, restarts>>

StopFrame ==
    UNCHANGED <<pipeVars, schedVars, now, monVars, valVars, config_file_path,
                restarts>>

RestartFrame ==
    UNCHANGED <<pipeVars, now, monVars, valVars, config_file_path,
                stop_result>>

ValidatorFrame ==
    UNCHANGED <<pipeVars, schedVars, now, monVars, config_file_path,
                stop_result, restarts>>

NextPipeline ==
    \/ \E kind \in ComponentKinds : add_component(kind) /\ PipelineFrame
    \/ execute_start /\ PipelineFrame
    \/ \E raises \in BOOLEAN : execute_component(raises) /\ PipelineFrame
    \/ execute_completed /\ PipelineFrame
    \/ execute_except /\ PipelineFrame
    \/ execute_finally /\ PipelineFrame

NextScheduler ==
    \/ \E name \in Names, pipeline_config \in PipelineConfigs,
          schedule_config \in ScheduleTypes, enabled \in BOOLEAN :
          add_scheduled_pipeline(name, pipeline_config, schedule_config,
                                 enabled) /\ SchedulerFrame
    \/ \E name \in Names : enable_pipeline(name) /\ SchedulerFrame
    \/ \E name \in Names : disable_pipeline(name) /\ SchedulerFrame
    \/ start_scheduler /\ SchedulerFrame
    \/ \E t \in Threads, name \in Names, manual \in BOOLEAN :
          execute_pipeline_enter(t, name, manual) /\ SchedulerFrame
    \/ \E t \in Threads : execute_pipeline_create(t) /\ SchedulerFrame
    \/ \E t \in Threads, status \in {"completed", "failed"} :
          execute_pipeline_run(t, status) /\ SchedulerFrame
    \/ \E t \in Threads : execute_pipeline_update(t) /\ SchedulerFrame
    \/ \E t \in Threads : execute_pipeline_except(t) /\ SchedulerFrame
    \/ \E t \in Threads : execute_pipeline_finally(t) /\ SchedulerFrame

NextAlerts ==
    \/ \E d \in Datasets, pipeline_name \in Pipelines :
          analyze_data_quality(d, pipeline_name) /\ MonitorFrame
    \/ \E alert_id \in {a.id : a \in alerts} :
          acknowledge_alert(alert_id) /\ MonitorFrame
    \/ Tick /\ MonitorFrame

NextHealth ==
    \/ \E d \in Datasets, pipeline_name \in Pipelines :
          analyze_data_quality(d, pipeline_name) /\ MonitorFrame
    \/ \E pipeline_name \in Pipelines :
          calculate_pipeline_health_score(pipeline_name) /\ MonitorFrame
    \/ Tick /\ MonitorFrame

NextValidator ==
    \E d \in ValidatorData : validator_execute(d) /\ ValidatorFrame

\* No validator is under observation: one without rules, never executed
NoValidator ==
    /\ InitValidator
    /\ v_rules = <<>>
    /\ v_config = {}

InitAll ==
    /\ InitPipeline
    /\ InitScheduler
    /\ config_file_path = DefaultConfigFile
    /\ stop_result = "not called"
    /\ restarts = 0
    /\ InitMonitor
    /\ NoValidator
    /\ now = 0
    /\ tz_offset = 0

InitDefault ==
    /\ InitAll
    /\ config = {}

InitHealth ==
    /\ InitPipeline
    /\ InitScheduler
    /\ config_file_path = DefaultConfigFile
    /\ stop_result = "not called"
    /\ restarts = 0
    /\ InitMonitor
    /\ NoValidator
    /\ now = 0
    /\ tz_offset \in TzOffsets
    /\ config = {}

\* DataQualityValidator.__init__ with any rules and any config
InitValidators ==
    /\ InitPipeline
    /\ InitScheduler
    /\ config_file_path = DefaultConfigFile
    /\ stop_result = "not called"
    /\ restarts = 0
    /\ InitMonitor
    /\ InitValidator
    /\ v_rules \in SeqsUpTo(Rules, MaxRules)
    /\ v_config \in ValidatorConfigs
    /\ now = 0
    /\ tz_offset = 0
    /\ config = {}

SpecPipeline == InitAll /\ [][NextPipeline]_vars

SpecScheduler == InitDefault /\ [][NextScheduler]_vars

SpecAlerts == InitDefault /\ [][NextAlerts]_vars

SpecHealth == InitHealth /\ [][NextHealth]_vars

SpecValidator == InitValidators /\ [][NextValidator]_vars

NextRegistry ==
    \/ NextScheduler
    \/ restart_scheduler /\ RestartFrame

\* PipelineScheduler.__init__ with either config_file argument
InitRegistry ==
    /\ InitPipeline
    /\ InitScheduler
    /\ InitMonitor
    /\ NoValidator
    /\ now = 0
    /\ tz_offset = 0
    /\ config = {}
    /\ config_file_path \in ConfigFiles
    /\ stop_result = "not called"
    /\ restarts = 0

SpecRegistry == InitRegistry /\ [][NextRegistry]_vars

\* A config file that registers both names, enabled and on an interval,
\* the second with a component class _create_component does not know
TwoPipelinesFile ==
    {[name |-> "X", pipeline |-> KnownConfig, schedule |-> "interval",
      enabled |-> TRUE],
     [name |-> "Y", pipeline |-> UnknownClassConfig,
      schedule |-> "interval", enabled |-> TRUE]}

\* PipelineScheduler.__init__ on a config file that holds two pipelines
InitLoop ==
    /\ InitPipeline
    /\ InitMonitor
    /\ NoValidator
    /\ now = 0
    /\ tz_offset = 0
    /\ config = {}
    /\ config_file_path = DefaultConfigFile
    /\ stop_result = "not called"
    /\ restarts = 0
    /\ config_file = TwoPipelinesFile
    /\ objects = LoadedObjects(TwoPipelinesFile)
    /\ scheduled_pipelines =
         [n \in Names |->
            CHOOSE i \in 1..Len(LoadedNames(TwoPipelinesFile)) :
                LoadedNames(TwoPipelinesFile)[i] = n]
    /\ running_pipelines = [n \in Names |-> "none"]
    /\ jobs = [n \in Names |-> 0]
    /\ scheduler_thread = "none"
    /\ metrics_db = <<>>
    /\ scheduler_events = <<>>
    /\ pc = [t \in Threads |-> "idle"]
    /\ call = [t \in Threads |-> NoCall]
    /\ last_return = "none"
    /\ calls = 0

NextLoop ==
    \/ \E name \in Names : enable_pipeline(name) /\ SchedulerFrame
    \/ \E name \in Names : disable_pipeline(name) /\ SchedulerFrame
    \/ start_scheduler /\ SchedulerFrame
    \/ stop_scheduler /\ StopFrame
    \/ \E t \in Threads, name \in Names, manual \in BOOLEAN :
          execute_pipeline_enter(t, name, manual) /\ SchedulerFrame
    \/ \E t \in Threads : execute_pipeline_create(t) /\ SchedulerFrame
    \/ \E t \in Threads, status \in {"completed", "failed"} :
          execute_pipeline_run(t, status) /\ SchedulerFrame
    \/ \E t \in Threads : execute_pipeline_update(t) /\ SchedulerFrame
    \/ \E t \in Threads : execute_pipeline_except(t) /\ SchedulerFrame
    \/ \E t \in Threads : execute_pipeline_finally(t) /\ SchedulerFrame

SpecLoop == InitLoop /\ [][NextLoop]_vars

\* The pipelines whose data is analysed and scored under SpecScore
ScoredPipelines == {<<"lib">>, <<"current", "pipeline">>}

NextScore ==
    \/ \E d \in Datasets, pipeline_name \in ScoredPipelines :
          analyze_data_quality(d, pipeline_name) /\ MonitorFrame
    \/ \E pipeline_name \in ScoredPipelines :
          calculate_pipeline_health_score(pipeline_name) /\ MonitorFrame
    \/ Tick /\ MonitorFrame

SpecScore == InitDefault /\ [][NextScore]_vars

(***************************************************************************)
(* Claims about ETLPipeline.execute, checked under SpecPipeline.            *)
(***************************************************************************)
StopOnErrorSet == <<"stop_on_error", FALSE>> \notin config

FailedInRun == {k \in 1..Len(ran) : ~ran[k].ok}

\* C1: with stop_on_error true (also by default), once a component of a run
\* has failed no later component is invoked in that run, and the Execution
\* that execute() returns has status 'failed'.
C1_StopOnErrorHalts ==
    StopOnErrorSet =>
        /\ \A k \in FailedInRun : k = Len(ran)
        /\ (returned = "pipeline_metrics" /\ FailedInRun # {})
              => pipeline_metrics.status = "failed"

\* A run of a pipeline of at least two components whose first component
\* failed has returned.
C1_Witness ==
    /\ StopOnErrorSet
    /\ returned = "pipeline_metrics"
    /\ Len(components) >= 2
    /\ Len(ran) = 1
    /\ ~ran[1].ok

\* C2: with stop_on_error false, whenever execute() finishes,
\* successful_components + failed_components = total_components.
C2_CountersCoverEveryComponent ==
    [][(exec_pc = "finally" /\ exec_pc' = "idle" /\ ~StopOnErrorSet)
         => pipeline_metrics'.successful_components
              + pipeline_metrics'.failed_components
              = pipeline_metrics'.total_components]_vars

C13_ErrorPropagates ==
    (StopOnErrorSet /\ exec_pc = "idle" /\ FailedInRun # {})
        => returned = "raised"


\* C23: each call of execute() generates a fresh execution_id, so no two
\* calls produce records with the same execution_id and a persisted record
\* is never overwritten by a later run.
C23_FreshExecutionId ==
    [][(exec_pc = "finally" /\ exec_pc' = "idle") =>
          \A r \in results_file :
              /\ r.execution_id # pipeline_metrics'.execution_id
              /\ r \in results_file']_vars


\* A pipeline of the form one extractor, zero or more transformers, one or
\* more loaders
WellFormed(kinds) ==
    /\ Len(kinds) >= 2
    /\ kinds[1] = "extractor"
    /\ \E first_loader \in 2..Len(kinds) :
          /\ \A k \in 2..(first_loader - 1) : kinds[k] = "transformer"
          /\ \A k \in first_loader..Len(kinds) : kinds[k] = "loader"

\* C25: in every pipeline of the form one extractor, zero or more
\* transformers, one or more loaders, every transformer and every loader,
\* the second and later loaders included, receives a dataset and never the
\* boolean returned by a preceding loader.  Stated for the runs in which no
\* earlier component failed.
C25_StageReceivesDataset ==
    [][(/\ exec_pc = "loop"
        /\ Len(ran') = Len(ran) + 1
        /\ WellFormed(components)
        /\ components[comp_idx] \in {"transformer", "loader"}
        /\ \A k \in 1..Len(ran) : ran[k].ok)
          => data = "dataset"]_vars


\* C26: for both values of stop_on_error, whenever execute() ends with
\* status 'completed', failed_components is 0 and every component's own
\* status is 'completed'.
C26_CompletedOnlyOnFullSuccess ==
    [][(/\ exec_pc = "finally"
        /\ exec_pc' = "idle"
        /\ pipeline_metrics'.status = "completed")
          => /\ pipeline_metrics'.failed_components = 0
             /\ FailedInRun = {}
             /\ \A i \in 1..Len(components) :
                   comp_metrics[i].status = "completed"]_vars


\* C30: the error raised by a failing component identifies its role: an
\* extractor failure raises ExtractionError, a transformer failure
\* TransformationError and a loader failure LoadError.
C30_RoleSpecificError ==
    \A k \in 1..Len(ran) :
        ~ran[k].ok =>
            ran[k].error =
                CASE components[ran[k].index] = "extractor" ->
                       "ExtractionError"
                  [] components[ran[k].index] = "transformer" ->
                       "TransformationError"
                  [] components[ran[k].index] = "loader" -> "LoadError"

(***************************************************************************)
(* Claims about PipelineScheduler, checked under SpecScheduler.            *)
(***************************************************************************)
\* Thread t is inside pipeline.execute() or writing its results
Executing(t) == pc[t] \in {"execute", "update"}

\* Thread t is past the checks of execute_pipeline and has not returned
InFlight(t) == pc[t] \in {"create", "execute", "update", "except", "finally"}

NoneInFlight(n) == \A t \in Threads : ~(InFlight(t) /\ call[t].name = n)

\* C3: at most one execution of a pipeline name is in flight at any time:
\* two threads never execute the pipeline of the same name at once.
C3_AtMostOneExecution ==
    \A t1, t2 \in Threads :
        (t1 # t2 /\ Executing(t1) /\ Executing(t2))
            => call[t1].name # call[t2].name

\* C4: when a call of execute_pipeline(name) that went past the checks
\* returns, name is not in the running-set; when no execution of name is in
\* flight name is not in the running-set, and a call for an enabled name is
\* then let through instead of being answered 'already_running'.
C4_RunningEntryRemoved ==
    [][/\ \A t \in Threads :
             (pc[t] = "finally" /\ pc'[t] = "idle")
                 => running_pipelines'[call[t].name] = "none"
       /\ \A n \in Names :
             NoneInFlight(n)' => running_pipelines'[n] = "none"
       /\ \A t \in Threads, n \in Names, m \in BOOLEAN :
             (/\ pc[t] = "idle"
              /\ calls' = calls + 1
              /\ NoneInFlight(n)
              /\ Registered(n)
              /\ Entry(n).enabled
              /\ execute_pipeline_enter(t, n, m))
                 => pc'[t] = "create"]_vars

\* A call that had entered the running-set has returned 'completed' and a
\* later call for the same name was let through.
C4_Witness ==
    /\ last_return = "completed"
    /\ \E t \in Threads :
          /\ pc[t] = "create"
          /\ objects[call[t].obj].run_count = 2
          /\ running_pipelines[call[t].name] = "none"

\* C9: execute_pipeline(name, manual=False) on a disabled pipeline returns
\* 'disabled' and changes neither the entry nor the running-set, builds no
\* pipeline and writes no row.
C9_DisabledCallChangesNothing ==
    [][\A t \in Threads, n \in Names :
          (/\ Registered(n)
           /\ ~Entry(n).enabled
           /\ execute_pipeline_enter(t, n, FALSE))
              => /\ last_return' = "disabled"
                 /\ UNCHANGED <<objects, scheduled_pipelines,
                                running_pipelines, jobs, config_file,
                                metrics_db, scheduler_events, pc, call>>]_vars

\* A pipeline that has run once was disabled, and the next call without
\* manual was answered 'disabled'.
C9_Witness ==
    /\ last_return = "disabled"
    /\ calls = 2
    /\ \E n \in Names :
          /\ Registered(n)
          /\ ~Entry(n).enabled
          /\ Entry(n).run_count = 1
          /\ Entry(n).success_count = 1

\* C10: disable_pipeline(name) leaves no job tagged name and does not touch
\* run_count, success_count and failure_count; while the entry stays
\* disabled no job is registered for it, and the loop thread starts an
\* execution of name only for an enabled entry.
C10_DisableClearsTriggers ==
    [][\A n \in Names :
          /\ disable_pipeline(n) =>
                /\ jobs'[n] = 0
                /\ Entry(n)'.run_count = Entry(n).run_count
                /\ Entry(n)'.success_count = Entry(n).success_count
                /\ Entry(n)'.failure_count = Entry(n).failure_count
          /\ (/\ Registered(n)
              /\ ~Entry(n).enabled
              /\ jobs[n] = 0
              /\ ~Entry(n)'.enabled) => jobs'[n] = 0
          /\ (/\ pc["loop"] = "idle"
              /\ pc'["loop"] = "create"
              /\ call'["loop"].name = n) => Entry(n).enabled]_vars

\* An entry that a call without manual entered while it was enabled is
\* disabled now, with no job left and its run counted.
C10_Witness ==
    \E t \in Threads :
        /\ InFlight(t)
        /\ ~call[t].manual
        /\ call[t].obj = scheduled_pipelines[call[t].name]
        /\ ~objects[call[t].obj].enabled
        /\ objects[call[t].obj].run_count = 1
        /\ jobs[call[t].name] = 0
        /\ scheduler_thread = "alive"

(***************************************************************************)
(* Claims about the alerts of DataQualityMonitor, checked under            *)
(* SpecAlerts.                                                             *)
(***************************************************************************)
\* The (pipeline, metric, timestamp) of the alerts of a table
Triples(table) ==
    {<<a.pipeline_name, a.metric_name, a.timestamp>> : a \in table}

\* The (pipeline, metric, timestamp) of the failing metrics of one analysis
FailedTriples(metrics, pipeline_name) ==
    {<<pipeline_name, metrics[i].name, metrics[i].timestamp>> :
        i \in {k \in 1..Len(metrics) : metrics[k].status = "fail"}}

\* C5: the alert store never holds two alerts with the same id, and after
\* every alert generation the number of stored alerts is the number of
\* distinct (pipeline, metric, timestamp) that failed: those stored before
\* together with those of the failing metrics of this analysis.
C5_OneAlertPerTriple ==
    [][\A d \in Datasets, pipeline_name \in Pipelines :
          (/\ quality_metrics' # quality_metrics
           /\ analyze_data_quality(d, pipeline_name)) =>
              /\ \A a, b \in alerts' : a.id = b.id => a = b
              /\ Cardinality(alerts') =
                   Cardinality(Triples(alerts) \cup
                               FailedTriples(Metrics(d, LocalNow),
                                             pipeline_name))]_vars

\* C6: the level of the alert of a failing metric with value v and
\* threshold t is critical if v/t < 0.5, error if 0.5 <= v/t < 0.8 and
\* warning otherwise, and never info.
C6_AlertLevelTiers ==
    \A a \in alerts :
        LET v == a.actual_value
            t == a.threshold_value
        IN /\ a.level # "info"
           /\ a.level =
                IF 2 * v[1] * t[2] < t[1] * v[2] THEN "critical"
                ELSE IF 5 * v[1] * t[2] < 4 * t[1] * v[2] THEN "error"
                ELSE "warning"

\* Alerts of all three levels are stored, among them critical for 0.40 and
\* warning for 0.90 against the threshold 0.95.
C6_Witness ==
    /\ \E a \in alerts : /\ a.actual_value = <<40, 100>>
                         /\ a.threshold_value = <<95, 100>>
                         /\ a.level = "critical"
    /\ \E a \in alerts : /\ a.actual_value = <<90, 100>>
                         /\ a.threshold_value = <<95, 100>>
                         /\ a.level = "warning"
    /\ \E a \in alerts : a.level = "error"

\* C7: in one analyze_data_quality run a metric is stored with status fail
\* exactly when its value is strictly below its threshold; each failing
\* metric has exactly one alert, carrying its value and threshold, and no
\* alert is written for a passing metric.
C7_AlertIffFail ==
    [][\A d \in Datasets, pipeline_name \in Pipelines :
          (/\ quality_metrics' # quality_metrics
           /\ analyze_data_quality(d, pipeline_name)) =>
              \A i \in 1..Len(Metrics(d, LocalNow)) :
                  LET row == quality_metrics'[Len(quality_metrics) + i]
                      made == {a \in alerts' :
                                  /\ a.pipeline_name = pipeline_name
                                  /\ a.metric_name = row.metric_name
                                  /\ a.timestamp = row.timestamp}
                  IN /\ row.status = "fail" <=>
                            RLess(row.metric_value, row.threshold_value)
                     /\ row.status = "fail" =>
                            /\ Cardinality(made) = 1
                            /\ \A a \in made :
                                  /\ a.actual_value = row.metric_value
                                  /\ a.threshold_value = row.threshold_value
                                  /\ ~a.acknowledged
                     /\ row.status = "pass" => made \subseteq alerts]_vars

\* One analysis of 100 rows with 10 null emails: completeness_email is 0.90
\* with status fail, the overall completeness equals the threshold 0.95 and
\* passes, and the one alert stored is the warning for completeness_email.
C7_Witness ==
    /\ Len(quality_metrics) = 8
    /\ \E i \in 1..Len(quality_metrics) :
          /\ quality_metrics[i].metric_name = <<"completeness", "email">>
          /\ quality_metrics[i].metric_value = <<90, 100>>
          /\ quality_metrics[i].threshold_value = <<95, 100>>
          /\ quality_metrics[i].status = "fail"
    /\ \E i \in 1..Len(quality_metrics) :
          /\ quality_metrics[i].metric_name = <<"overall", "completeness">>
          /\ quality_metrics[i].metric_value = <<190, 200>>
          /\ quality_metrics[i].status = "pass"
    /\ Cardinality(alerts) = 1
    /\ \A a \in alerts : /\ a.metric_name = <<"completeness", "email">>
                         /\ a.actual_value = <<90, 100>>
                         /\ a.level = "warning"


\* C24: once an alert is stored, acknowledgement is the only mutation it
\* undergoes: its level, threshold and actual value never change, and once
\* acknowledged it stays acknowledged, also when alerts are generated again
\* for the same (pipeline, metric, timestamp).
C24_OnlyAcknowledgementMutates ==
    [][\A a \in alerts :
          \E b \in alerts' :
              /\ b.id = a.id
              /\ b.level = a.level
              /\ b.pipeline_name = a.pipeline_name
              /\ b.metric_name = a.metric_name
              /\ b.threshold_value = a.threshold_value
              /\ b.actual_value = a.actual_value
              /\ a.acknowledged => b.acknowledged]_vars

(***************************************************************************)
(* Claims about calculate_pipeline_health_score, checked under SpecHealth  *)
(* and SpecScore.                                                          *)
(***************************************************************************)
\* No row stored for pipeline_name was written in the last 24 hours
NoMetricsInWindow(pipeline_name) ==
    \A i \in 1..Len(quality_metrics) :
        quality_metrics[i].pipeline_name = pipeline_name
            => now - (quality_metrics[i].timestamp - tz_offset) > Window

\* C8: calculate_pipeline_health_score of a pipeline with no quality metric
\* inside the trailing 24 hours returns exactly 1.0, whatever older metrics
\* and metrics of other pipelines are stored.
C8_NoMetricsScoreIsOne ==
    [][\A pipeline_name \in Pipelines :
          (/\ NoMetricsInWindow(pipeline_name)
           /\ calculate_pipeline_health_score(pipeline_name))
              => health_score' = <<1, 1>>]_vars

\* The edges of the cycle scheduled -> running -> {completed, failed} ->
\* scheduled
StatusCycle ==
    {<<"scheduled", "running">>, <<"running", "completed">>,
     <<"running", "failed">>, <<"completed", "scheduled">>,
     <<"failed", "scheduled">>}

\* C11: the status of a scheduled pipeline changes only along the cycle
\* scheduled -> running -> {completed, failed} -> scheduled, and a run
\* starts only from status 'scheduled'; stated for the runs that start while
\* no other execution of the name is in flight.
C11_StatusFollowsCycle ==
    [][\A t \in Threads :
          (/\ pc[t] = "idle"
           /\ pc'[t] = "create"
           /\ NoneInFlight(call'[t].name))
              => /\ objects[call'[t].obj].status = "scheduled"
                 /\ <<objects[call'[t].obj].status,
                      objects'[call'[t].obj].status>> \in StatusCycle]_vars


(***************************************************************************)
(* Claims about DataQualityValidator, checked under SpecValidator.         *)
(***************************************************************************)
StrictMode == DictGet(v_config, "strict_mode", FALSE)

\* The rules of the validator that failed in the last validate() and whose
\* configured severity is the given one
FailedRules(severity) ==
    {i \in 1..Len(v_rules) :
        \E results \in v_results :
            /\ ~results.rule_results[i].passed
            /\ ConfiguredSeverity(v_rules[i]) = severity}

\* C14: the validator component raises DataQualityError for a failing
\* error-severity rule only when strict mode is configured; with strict mode
\* off the component completes and returns the dataset.  A failing
\* warning-severity rule alone never raises.
C14_RaisesOnlyInStrictMode ==
    /\ (v_returned = "DataQualityError") => StrictMode
    /\ (v_returned = "DataQualityError") => FailedRules("error") # {}
    /\ (v_calls > 0 /\ v_results # {} /\ ~StrictMode) =>
          /\ v_returned = "data"
          /\ v_metrics.status = "completed"

\* C15: validate() returns passed = false exactly when a rule whose
\* configured severity is error failed; failed warning-severity rules (the
\* default severity) are counted in failed_rules and leave passed = true;
\* passed_rules + failed_rules = total_rules.
C15_PassedIffNoErrorRuleFailed ==
    \A results \in v_results :
        /\ results.passed = (FailedRules("error") = {})
        /\ results.failed_rules =
             Cardinality(FailedRules("error") \cup FailedRules("warning"))
        /\ results.passed_rules + results.failed_rules = results.total_rules
        /\ results.total_rules = Len(v_rules)

\* validate() returned passed = true although a warning-severity rule
\* failed, one whose check raised and was reported with severity 'error'
C15_Witness ==
    \E results \in v_results :
        /\ results.passed
        /\ results.failed_rules >= 1
        /\ \E i \in FailedRules("warning") :
              results.rule_results[i].severity = "error"

\* C16: for every component invocation, if extract/transform/load raises,
\* the error is appended to the component's errors, its status becomes
\* 'failed' and the caller sees the error; if it returns, the status becomes
\* 'completed' and records_processed is set.  After an invocation the status
\* is 'completed' or 'failed'.
C16_InvocationOutcomeRecorded ==
    [][(exec_pc = "loop" /\ Len(ran') = Len(ran) + 1) =>
          LET i == comp_idx
              invocation == ran'[Len(ran')]
          IN /\ invocation.index = i
             /\ comp_metrics'[i].status \in {"completed", "failed"}
             /\ invocation.ok =>
                   /\ comp_metrics'[i].status = "completed"
                   /\ comp_metrics'[i].records_processed = 1
                   /\ comp_metrics'[i].errors = comp_metrics[i].errors
                   /\ pipeline_metrics'.successful_components =
                        pipeline_metrics.successful_components + 1
             /\ ~invocation.ok =>
                   /\ comp_metrics'[i].status = "failed"
                   /\ comp_metrics'[i].errors = comp_metrics[i].errors + 1
                   /\ pipeline_metrics'.failed_components =
                        pipeline_metrics.failed_components + 1]_vars

\* A run in which one component returned and a later one raised
C16_Witness ==
    \E j, k \in 1..Len(ran) :
        /\ j < k
        /\ ran[j].ok
        /\ comp_metrics[ran[j].index].status = "completed"
        /\ ~ran[k].ok
        /\ comp_metrics[ran[k].index].status = "failed"
        /\ comp_metrics[ran[k].index].errors >= 1

\* C17: execute_pipeline never raises for the normal scheduler conditions: a
\* name that is not registered, a disabled pipeline and an already running
\* pipeline each end the call with a returned status value.
C17_NormalConditionsAreReturned ==
    [][\A t \in Threads :
          (pc[t] = "idle" /\ pc'[t] = "idle" /\ calls' = calls + 1) =>
              last_return' \in
                  {"disabled", "already_running", "not_found"}]_vars

\* C18: every quality metric persisted by analyze_data_quality(data, P) is
\* recorded under pipeline_name P, so that the rows a later
\* calculate_pipeline_health_score(P) selects are those metrics.
C18_MetricsStoredUnderPipeline ==
    [][\A d \in Datasets, pipeline_name \in Pipelines :
          (/\ quality_metrics' # quality_metrics
           /\ analyze_data_quality(d, pipeline_name))
              => \A i \in (Len(quality_metrics) + 1)..Len(quality_metrics') :
                    quality_metrics'[i].pipeline_name = pipeline_name]_vars

\* The metric types among the rows
PresentTypes(rows) == {rows[i].metric_type : i \in 1..Len(rows)}

\* The fixed weight of a metric type
FixedWeight(metric_type) ==
    CASE metric_type = "completeness" -> <<25, 100>>
      [] metric_type = "accuracy" -> <<25, 100>>
      [] metric_type = "validity" -> <<20, 100>>
      [] metric_type = "consistency" -> <<15, 100>>
      [] metric_type = "uniqueness" -> <<15, 100>>

RECURSIVE RSum(_, _)
\* The sum of the ratios f[t] over the t in S
RSum(f, S) ==
    IF S = {} THEN <<0, 1>>
    ELSE LET t == CHOOSE x \in S : TRUE
         IN RAdd(f[t], RSum(f, S \ {t}))

\* (sum of w_t * mean_t) / (sum of w_t) over the types present
WeightedMean(rows) ==
    LET T == PresentTypes(rows)
    IN RDiv(RSum([t \in T |-> RMul(FixedWeight(t), AvgValue(rows, t))], T),
            RSum([t \in T |-> FixedWeight(t)], T))

InUnit(r) == ~RLess(r, <<0, 1>>) /\ ~RLess(<<1, 1>>, r)

\* C19: when metrics exist in the window the health score is the weighted
\* mean of the per-type means with weights completeness .25, accuracy .25,
\* validity .20, consistency .15, uniqueness .15; so with every value in
\* [0,1] the score is in [0,1], and with every type's mean equal to v the
\* score is v.
C19_ScoreIsWeightedMean ==
    [][\A pipeline_name \in Pipelines :
          (/\ Len(pipeline_health') = Len(pipeline_health) + 1
           /\ RecentMetrics(pipeline_name) # <<>>
           /\ calculate_pipeline_health_score(pipeline_name))
              => LET rows == RecentMetrics(pipeline_name)
                 IN /\ health_score' = WeightedMean(rows)
                    /\ (\A i \in 1..Len(rows) : InUnit(rows[i].metric_value))
                          => InUnit(health_score')
                    /\ \A t \in PresentTypes(rows) :
                          (\A u \in PresentTypes(rows) :
                              AvgValue(rows, u) = AvgValue(rows, t))
                             => health_score' = AvgValue(rows, t)]_vars

\* A score was computed and stored from rows of several types whose means
\* differ
C19_Witness ==
    /\ Len(pipeline_health) > 0
    /\ health_score = pipeline_health[Len(pipeline_health)].health_score
    /\ LET rows == RecentMetrics(
                       pipeline_health[Len(pipeline_health)].pipeline_name)
       IN /\ Cardinality(PresentTypes(rows)) >= 3
          /\ \E t, u \in PresentTypes(rows) :
                AvgValue(rows, t) # AvgValue(rows, u)
          /\ health_score = WeightedMean(rows)
          /\ health_score # <<1, 1>>

\* C20: the success rate and total failures persisted when an execution
\* finishes are computed from the entry's counters including that run's own
\* outcome: success_rate = success_count / run_count and total_failures =
\* failure_count as they stand after the run.
C20_MetricsIncludeOwnRun ==
    [][\A t \in Threads :
          (pc[t] = "update" /\ pc'[t] = "finally") =>
              LET row == metrics_db'[Len(metrics_db')]
                  sp == objects'[call[t].obj]
              IN /\ Len(metrics_db') = Len(metrics_db) + 1
                 /\ row.success_count * sp.run_count =
                      sp.success_count * row.total_runs
                 /\ row.total_runs = sp.run_count
                 /\ row.total_failures = sp.failure_count]_vars


\* C29: a validator rule set that references an unknown rule type produces a
\* ConfigurationError; the rule is never treated as an ordinary passing or
\* warning-only rule result.  (For a scheduled pipeline whose config names
\* an unknown component class the claim asks the same.)
C29_UnknownKindIsConfigurationError ==
    \A results \in v_results :
        (/\ v_calls > 0
         /\ \E i \in 1..Len(v_rules) : v_rules[i].type \notin
               {"not_null", "unique", "range", "pattern", "completeness"})
            => v_returned = "ConfigurationError"

(***************************************************************************)
(* Claims about the persisted registry, checked under SpecRegistry.        *)
(***************************************************************************)
\* C21: after each add_scheduled_pipeline, enable_pipeline or
\* disable_pipeline call returns, the persisted registry equals the
\* in-memory registry: the same names, each with the same pipeline config,
\* schedule config and enabled flag.
C21_PersistedEqualsRegistry ==
    [][(\/ \E name \in Names, pipeline_config \in PipelineConfigs,
              schedule_config \in ScheduleTypes, enabled \in BOOLEAN :
              add_scheduled_pipeline(name, pipeline_config, schedule_config,
                                     enabled)
        \/ \E name \in Names : enable_pipeline(name)
        \/ \E name \in Names : disable_pipeline(name))
          => config_file' = SavedConfigs(scheduled_pipelines', objects')]_vars

\* The counters and run state of an entry that execute_pipeline updates
RunState(sp) ==
    <<sp.status, sp.last_run, sp.run_count, sp.success_count,
      sp.failure_count>>

\* C22: every mutation of an entry is persisted, execute_pipeline's updates
\* of status, last_run, run_count, success_count and failure_count included:
\* a scheduler restarted from the durable configuration holds, for each
\* entry, the same values as before the restart.  Stated for the restarts
\* made while the file holds the registry that add, enable and disable saved.
C22_CountersSurviveRestart ==
    [][(/\ restart_scheduler
        /\ config_file = SavedConfigs(scheduled_pipelines, objects))
          => \A n \in Names :
                Registered(n) =>
                    /\ scheduled_pipelines'[n] # 0
                    /\ RunState(objects'[scheduled_pipelines'[n]]) =
                         RunState(Entry(n))]_vars

(***************************************************************************)
(* Claims about the scheduling loop, checked under SpecLoop.               *)
(***************************************************************************)
\* C27: stopping the scheduler is effective: when stop has been requested
\* the call returns with all pending triggers cleared, and afterwards no
\* trigger-initiated execution starts.
C27_StopIsEffective ==
    [][/\ stop_result' # stop_result =>
             /\ stop_result' = "returned"
             /\ \A n \in Names : jobs'[n] = 0
       /\ (stop_result # "not called" /\ pc["loop"] = "idle") =>
             pc'["loop"] = "idle"]_vars

\* C28: a long-running execution started by a due trigger does not block
\* the scheduling loop: while it is in flight, a trigger of a different
\* pipeline name that is due can be started.
C28_LoopNotBlocked ==
    \A n \in Names :
        (/\ scheduler_thread = "alive"
         /\ pc["loop"] = "execute"
         /\ call["loop"].name # n
         /\ jobs[n] > 0
         /\ calls < MaxCalls)
            => ENABLED execute_pipeline_enter("loop", n, FALSE)

(***************************************************************************)
(* Claims about the counters and the execution rows of PipelineScheduler,  *)
(* checked under SpecScheduler.                                            *)
(***************************************************************************)
\* Thread t is past the checks of execute_pipeline for the entry g and the
\* outcome of its execution is not counted yet
Uncounted(t, g) ==
    /\ pc[t] \in {"create", "execute", "update", "except"}
    /\ call[t].obj = g

ExecutionRows(n) ==
    {i \in 1..Len(metrics_db) : metrics_db[i].pipeline_name = n}

\* C32: whenever no execution of a pipeline name is in flight, the number of
\* execution rows persisted for that name equals the entry's run_count.
C32_RowPerRun ==
    \A n \in Names :
        (Registered(n) /\ NoneInFlight(n))
            => Cardinality(ExecutionRows(n)) = Entry(n).run_count

\* C33: at most one job is registered per pipeline name, and none for a
\* registered pipeline that is disabled.
C33_OneTriggerPerName ==
    \A n \in Names :
        /\ jobs[n] <= 1
        /\ (Registered(n) /\ ~Entry(n).enabled) => jobs[n] = 0

(***************************************************************************)
(* Further claims about ETLPipeline.execute, checked under SpecPipeline.   *)
(***************************************************************************)
\* The invocations of the run r that returned
Succeeded(r) == {k \in 1..Len(r) : r[k].ok}

\* The output of the most recent component of the run r that returned, or
\* None when none has
LastOutput(r) ==
    IF Succeeded(r) = {} THEN "None"
    ELSE LET last == CHOOSE k \in Succeeded(r) :
                         \A j \in Succeeded(r) : j <= k
         IN ComponentOutput(components[r[last].index])

\* C34: with stop_on_error false every stage is invoked in its turn and
\* receives the output of the most recent earlier stage of the run that
\* succeeded, or None if there is none; when a stage fails the dataset is
\* kept as it is and the next stage is the one to be invoked.
C34_FailureKeepsDataset ==
    [][(/\ exec_pc = "loop"
        /\ ~StopOnErrorSet
        /\ Len(ran') = Len(ran) + 1)
          => /\ ran'[Len(ran')].index = Len(ran) + 1
             /\ data = LastOutput(ran)
             /\ ~ran'[Len(ran')].ok =>
                   /\ data' = data
                   /\ exec_pc' = "loop"
                   /\ comp_idx' = comp_idx + 1]_vars

\* The second stage of a run failed and the third stage was invoked with
\* the dataset of the first and returned.
C34_Witness ==
    /\ ~StopOnErrorSet
    /\ Len(ran) = 3
    /\ ran[1].ok
    /\ ~ran[2].ok
    /\ ran[3].ok
    /\ components[3] = "loader"

\* C35: the Execution that a call of execute() returns counts only the
\* components of that call, with successful + failed <= total_components,
\* and a later call of execute() on the same pipeline does not alter the
\* Execution an earlier call has returned.
C35_ExecutionIsPerRun ==
    [][/\ (exec_pc = "finally" /\ exec_pc' = "idle") =>
             /\ pipeline_metrics'.successful_components
                  = Cardinality(Succeeded(ran))
             /\ pipeline_metrics'.failed_components
                  = Cardinality(FailedInRun)
             /\ Len(pipeline_metrics'.component_metrics) = Len(ran)
             /\ pipeline_metrics'.successful_components
                  + pipeline_metrics'.failed_components
                  <= pipeline_metrics'.total_components
       /\ (/\ returned = "pipeline_metrics"
           /\ exec_pc = "idle"
           /\ exec_pc' = "loop") => pipeline_metrics' = pipeline_metrics]_vars

(***************************************************************************)
(* A further claim about PipelineScheduler, checked under SpecScheduler.   *)
(***************************************************************************)
\* C36: execute_pipeline(name, manual=True) on a disabled pipeline that is
\* not running goes past the checks and sets last_run and counts the run;
\* the execution then counts one success or one failure according to its
\* outcome; no step of a manual call changes the enabled flag or registers
\* a job.
C36_ManualRunsDisabledPipeline ==
    [][\A t \in Threads :
          /\ \A n \in Names :
                (/\ pc[t] = "idle"
                 /\ calls' = calls + 1
                 /\ Registered(n)
                 /\ ~Entry(n).enabled
                 /\ running_pipelines[n] = "none"
                 /\ execute_pipeline_enter(t, n, TRUE))
                    => /\ pc'[t] = "create"
                       /\ call'[t].obj = scheduled_pipelines[n]
                       /\ Entry(n)'.status = "running"
                       /\ Entry(n)'.last_run = calls'
                       /\ Entry(n)'.run_count = Entry(n).run_count + 1
                       /\ ~Entry(n)'.enabled
                       /\ jobs' = jobs
          /\ (InFlight(t) /\ call[t].manual /\ pc'[t] # pc[t]) =>
                LET g == call[t].obj
                    counted == <<objects'[g].success_count
                                   - objects[g].success_count,
                                 objects'[g].failure_count
                                   - objects[g].failure_count>>
                IN /\ objects'[g].enabled = objects[g].enabled
                   /\ objects'[g].run_count = objects[g].run_count
                   /\ jobs' = jobs
                   /\ counted =
                        CASE pc[t] = "update" ->
                               IF call[t].results = "completed"
                               THEN <<1, 0>> ELSE <<0, 1>>
                          [] pc[t] = "except" -> <<0, 1>>
                          [] OTHER -> <<0, 0>>]_vars

\* A manual call for a disabled pipeline without jobs has counted its run
\* and its success and is about to return.
C36_Witness ==
    \E t \in Threads :
        /\ pc[t] = "finally"
        /\ call[t].manual
        /\ call[t].ret = "completed"
        /\ ~objects[call[t].obj].enabled
        /\ objects[call[t].obj].run_count = 1
        /\ objects[call[t].obj].success_count = 1
        /\ objects[call[t].obj].last_run = 1
        /\ jobs[call[t].name] = 0
        /\ scheduler_thread = "none"

====
